---- MODULE Spec2Model ----
(***************************************************************************)
(* Model of src/morpher.py: SentenceMorpher (morph_word,                   *)
(* _refine_dative_case, _process_position_part, morph_sentence) and        *)
(* NameMorpher (_inflect_name_part, _determine_gender, morph_name) with    *)
(* its _case_cache.                                                        *)
(*                                                                         *)
(* Text is a sequence of characters.  A character is a one-letter string;  *)
(* Ukrainian letters are written in Latin transliteration (one token per   *)
(* Cyrillic letter: "ch" is the letter che, "yu" the letter yu, ...).      *)
(* The morphological analyzer (pymorphy3) is external: it is modelled as a *)
(* scripted, pure dictionary, including words on which it fails.           *)
(***************************************************************************)
EXTENDS Naturals, Sequences, FiniteSets, TLC

VARIABLES cache, op, args, outcome, obs, prev, ncalls

vars == <<cache, op, args, outcome, obs, prev, ncalls>>

(***************************************************************************)
(* Python str operations used by the source.                               *)
(***************************************************************************)
LowerLetters ==
  <<"a", "ya", "u", "yu", "o", "v", "i", "yi", "e", "ye", "y", "ch", "n",
    "k", "t", "r", "d", "l", "sh", "s", "p", "h", "b", "m", "z", "j", "soft">>

UpperLetters ==
  <<"A", "YA", "U", "YU", "O", "V", "I", "YI", "E", "YE", "Y", "CH", "N",
    "K", "T", "R", "D", "L", "SH", "S", "P", "H", "B", "M", "Z", "J", "SOFT">>

Whitespace == {" ", "TAB"}

\* the case mappings of the letters, tabulated
LowerOf == [c \in {UpperLetters[i] : i \in 1..Len(UpperLetters)} |->
              LowerLetters[CHOOSE i \in 1..Len(UpperLetters) : UpperLetters[i] = c]]

UpperOf == [c \in {LowerLetters[i] : i \in 1..Len(LowerLetters)} |->
              UpperLetters[CHOOSE i \in 1..Len(LowerLetters) : LowerLetters[i] = c]]

IsLowerChar(c) == c \in DOMAIN UpperOf

\* str.isupper() on one character
IsUpperChar(c) == c \in DOMAIN LowerOf

UpperChar(c) == IF IsLowerChar(c) THEN UpperOf[c] ELSE c

LowerChar(c) == IF IsUpperChar(c) THEN LowerOf[c] ELSE c

\* str.lower()
Lower(s) == [i \in 1..Len(s) |-> LowerChar(s[i])]

\* str.upper()
Upper(s) == [i \in 1..Len(s) |-> UpperChar(s[i])]

\* str.capitalize(): first character upper-cased, every other one lower-cased
Capitalize(s) ==
  [i \in 1..Len(s) |-> IF i = 1 THEN UpperChar(s[i]) ELSE LowerChar(s[i])]

\* str.endswith(suffix)
EndsWith(s, suf) ==
  /\ Len(suf) <= Len(s)
  /\ SubSeq(s, Len(s) - Len(suf) + 1, Len(s)) = suf

\* str.endswith((suffix, suffix, ...))
EndsWithAny(s, sufs) == \E suf \in sufs : EndsWith(s, suf)

\* str.startswith(prefix) at offset i (1-based)
MatchAt(s, sep, i) ==
  /\ i + Len(sep) - 1 <= Len(s)
  /\ SubSeq(s, i, i + Len(sep) - 1) = sep

\* str.strip(): from the first to the last non-whitespace character
Strip(s) ==
  LET solid == {i \in 1..Len(s) : s[i] \notin Whitespace}
  IN IF solid = {} THEN <<>>
     ELSE SubSeq(s, CHOOSE i \in solid : \A j \in solid : i <= j,
                    CHOOSE i \in solid : \A j \in solid : j <= i)

\* the k-th smallest element of a set of numbers
KthOf(S, k) == CHOOSE i \in S : Cardinality({j \in S : j < i}) = k - 1

\* str.split(): the maximal runs of non-whitespace characters, in order
Split(s) ==
  LET starts == {i \in 1..Len(s) :
                   s[i] \notin Whitespace /\ (i = 1 \/ s[i - 1] \in Whitespace)}
      EndOf(i) == CHOOSE j \in i..Len(s) :
                    /\ \A k \in i..j : s[k] \notin Whitespace
                    /\ (j = Len(s) \/ s[j + 1] \in Whitespace)
  IN [k \in 1..Cardinality(starts) |->
        SubSeq(s, KthOf(starts, k), EndOf(KthOf(starts, k)))]

\* str.split(sep): cut at the leftmost, non-overlapping occurrences of sep;
\* always at least one piece, empty pieces kept
SplitOn(s, sep) ==
  LET cutAt[i \in 1..Len(s)] ==
        /\ MatchAt(s, sep, i)
        /\ \A j \in 1..(i - 1) : j + Len(sep) > i => ~cutAt[j]
      cuts == {i \in 1..Len(s) : cutAt[i]}
      From(k) == IF k = 1 THEN 1 ELSE KthOf(cuts, k - 1) + Len(sep)
      To(k) == IF k = Cardinality(cuts) + 1 THEN Len(s) ELSE KthOf(cuts, k) - 1
  IN [k \in 1..(Cardinality(cuts) + 1) |-> SubSeq(s, From(k), To(k))]

\* sep.join(pieces)
Join(sep, pieces) ==
  LET joined[k \in 0..Len(pieces)] ==
        IF k = 0 THEN <<>>
        ELSE IF k = 1 THEN pieces[1]
        ELSE joined[k - 1] \o sep \o pieces[k]
  IN joined[Len(pieces)]

Space == <<" ">>

\* the literal ' - ' of morph_sentence
Delimiter == <<" ", "-", " ">>

(***************************************************************************)
(* The analyzer: self.morph = pymorphy3.MorphAnalyzer(lang='uk').          *)
(* A scripted dictionary.  Every form is lower-case (pymorphy3 analyses    *)
(* word.lower() and its dictionary holds lower-case forms), a lexeme is    *)
(* the ordered list of the forms of one entry, and a tag is the set of     *)
(* grammemes of a form.                                                    *)
(***************************************************************************)
Paradigm(lex, stem, common, rows) ==
  [i \in 1..Len(rows) |->
     [lex |-> lex, word |-> stem \o rows[i][2], tag |-> common \cup {rows[i][1]}]]

MascHard == \* dative -ovi before -u
  << <<"nomn", <<>>>>, <<"gent", <<"a">>>>, <<"datv", <<"o", "v", "i">>>>,
     <<"datv", <<"u">>>>, <<"accs", <<"a">>>>, <<"ablt", <<"o", "m">>>>,
     <<"loct", <<"o", "v", "i">>>>, <<"voct", <<"e">>>> >>

MascSoft == \* dative -evi before -yu before -u
  << <<"nomn", <<>>>>, <<"gent", <<"ya">>>>, <<"datv", <<"e", "v", "i">>>>,
     <<"datv", <<"yu">>>>, <<"datv", <<"u">>>>, <<"accs", <<"ya">>>>,
     <<"ablt", <<"e", "m">>>>, <<"loct", <<"e", "v", "i">>>>, <<"voct", <<"e">>>> >>

MascJot == \* dative -yevi before -yu
  << <<"nomn", <<"j">>>>, <<"gent", <<"ya">>>>, <<"datv", <<"ye", "v", "i">>>>,
     <<"datv", <<"yu">>>>, <<"accs", <<"ya">>>>, <<"ablt", <<"ye", "m">>>>,
     <<"loct", <<"yu">>>>, <<"voct", <<"yu">>>> >>

MascLongOnly == \* genitive in -u, dative only in -ovi
  << <<"nomn", <<>>>>, <<"gent", <<"u">>>>, <<"datv", <<"o", "v", "i">>>>,
     <<"accs", <<>>>>, <<"ablt", <<"o", "m">>>>, <<"loct", <<"i">>>>,
     <<"voct", <<"e">>>> >>

SurnameO ==
  << <<"nomn", <<"o">>>>, <<"gent", <<"a">>>>, <<"datv", <<"o", "v", "i">>>>,
     <<"datv", <<"u">>>>, <<"accs", <<"a">>>>, <<"ablt", <<"o", "m">>>>,
     <<"loct", <<"o", "v", "i">>>>, <<"voct", <<"u">>>> >>

SurnameSoft ==
  << <<"nomn", <<"soft">>>>, <<"gent", <<"ya">>>>, <<"datv", <<"e", "v", "i">>>>,
     <<"datv", <<"yu">>>>, <<"accs", <<"ya">>>>, <<"ablt", <<"e", "m">>>>,
     <<"loct", <<"e", "v", "i">>>>, <<"voct", <<"yu">>>> >>

DeclA ==
  << <<"nomn", <<"a">>>>, <<"gent", <<"y">>>>, <<"datv", <<"i">>>>,
     <<"accs", <<"u">>>>, <<"ablt", <<"o", "yu">>>>, <<"loct", <<"i">>>>,
     <<"voct", <<"o">>>> >>

FemCons ==
  << <<"nomn", <<>>>>, <<"gent", <<"i">>>>, <<"datv", <<"i">>>>,
     <<"accs", <<>>>>, <<"ablt", <<"yu">>>>, <<"loct", <<"i">>>>,
     <<"voct", <<"e">>>> >>

Adjective ==
  << <<"nomn", <<"y", "j">>>>, <<"gent", <<"o", "h", "o">>>>,
     <<"datv", <<"o", "m", "u">>>>, <<"accs", <<"o", "h", "o">>>>,
     <<"ablt", <<"y", "m">>>>, <<"loct", <<"o", "m", "u">>>>,
     <<"voct", <<"y", "j">>>> >>

Patronymic ==
  << <<"nomn", <<>>>>, <<"gent", <<"a">>>>, <<"datv", <<"u">>>>,
     <<"accs", <<"a">>>>, <<"ablt", <<"e", "m">>>>, <<"loct", <<"u">>>>,
     <<"voct", <<"u">>>> >>

Indeclinable ==
  << <<"nomn", <<>>>>, <<"gent", <<>>>>, <<"datv", <<>>>>, <<"accs", <<>>>>,
     <<"ablt", <<>>>>, <<"loct", <<>>>>, <<"voct", <<>>>> >>

dekan == <<"d", "e", "k", "a", "n">>
ihor == <<"i", "h", "o", "r">>
andri == <<"a", "n", "d", "r", "i">>
viddil == <<"v", "i", "d", "d", "i", "l">>
brat == <<"b", "r", "a", "t">>
novyj == <<"n", "o", "v">>
metro == <<"m", "e", "t", "r", "o">>
ta == <<"t", "a">>
shevchenk == <<"sh", "e", "v", "ch", "e", "n", "k">>
koval == <<"k", "o", "v", "a", "l">>
sosyur == <<"s", "o", "s", "yu", "r">>
taras == <<"t", "a", "r", "a", "s">>
olh == <<"o", "l", "soft", "h">>
lyubov == <<"l", "yu", "b", "o", "v">>
petrovych == <<"p", "e", "t", "r", "o", "v", "y", "ch">>
petrivn == <<"p", "e", "t", "r", "i", "v", "n">>
kuzmych == <<"k", "u", "z", "m", "y", "ch">>
typeErrWord == <<"t", "t">>
runtimeErrWord == <<"z", "z">>

AllForms ==
     Paradigm("dekan", dekan, {"NOUN", "masc"}, MascHard)
  \o Paradigm("ihor", ihor, {"NOUN", "masc", "Name"}, MascSoft)
  \o Paradigm("andrij", andri, {"NOUN", "masc", "Name"}, MascJot)
  \o Paradigm("viddil", viddil, {"NOUN", "masc"}, MascLongOnly)
  \o Paradigm("brat", brat, {"NOUN", "masc"}, MascHard)
  \o Paradigm("novyj", novyj, {"ADJF", "masc"}, Adjective)
  \o Paradigm("metro", metro, {"NOUN", "neut", "Fixd"}, Indeclinable)
  \o << [lex |-> "ta", word |-> ta, tag |-> {"CONJ"}] >>
  \o Paradigm("shevchenko", shevchenk, {"NOUN", "masc", "Sgtm", "Surn"}, SurnameO)
  \o Paradigm("koval", koval, {"NOUN", "masc", "Sgtm", "Surn"}, SurnameSoft)
  \o Paradigm("sosyura", sosyur, {"NOUN", "masc", "Sgtm", "Surn"}, DeclA)
  \o Paradigm("taras", taras, {"NOUN", "masc", "Name"}, MascHard)
  \o Paradigm("olha", olh, {"NOUN", "femn", "Name"}, DeclA)
  \o Paradigm("lyubov", lyubov, {"NOUN", "femn", "Sgtm", "Name"}, FemCons)
  \o Paradigm("petrovych", petrovych, {"NOUN", "masc", "Patr"}, Patronymic)
  \o Paradigm("petrivna", petrivn, {"NOUN", "femn", "Patr"}, DeclA)

\* words on which MorphAnalyzer.parse itself raises
ParseRaises(wl) ==
  IF wl = typeErrWord THEN "TypeError"
  ELSE IF wl = runtimeErrWord THEN "RuntimeError"
  ELSE "none"

\* entries whose Parse object has no lexeme attribute
NoLexeme == {"brat"}

\* the grammemes MorphAnalyzer knows as cases
KnownCases == {"nomn", "gent", "datv", "accs", "ablt", "loct", "voct"}

\* the rest of parse once word.lower() is taken
ParseLower(wl, exc) ==
  [exc |-> exc,
   list |-> IF exc = "none" THEN SelectSeq(AllForms, LAMBDA f : f.word = wl) ELSE <<>>]

\* self.morph.parse(word): the ranked parses of word.lower(), or the
\* exception parse raises
parse(word) == ParseLower(Lower(word), ParseRaises(Lower(word)))

\* the exception leaving p[0] for p the outcome of parse: the one parse raised,
\* IndexError for an empty list, "none" when there is a top parse
TopExc(p) ==
  IF p.exc # "none" THEN p.exc
  ELSE IF p.list = <<>> THEN "IndexError"
  ELSE "none"

\* Parse.lexeme: every form of the entry, in dictionary order
lexeme(parsed) ==
  [exc |-> IF parsed.lex \in NoLexeme THEN "AttributeError" ELSE "none",
   forms |-> IF parsed.lex \in NoLexeme THEN <<>>
             ELSE SelectSeq(AllForms, LAMBDA f : f.lex = parsed.lex)]

\* the answer of inflect given the forms of the entry that carry the case
InflectFrom(cands, case) ==
  IF case \notin KnownCases
  THEN [exc |-> "ValueError", isNone |-> TRUE, word |-> <<>>]
  ELSE IF cands = <<>>
       THEN [exc |-> "none", isNone |-> TRUE, word |-> <<>>]
       ELSE [exc |-> "none", isNone |-> FALSE, word |-> cands[1].word]

\* Parse.inflect({case}): the first form of the entry carrying the case, None
\* when there is none, ValueError for a grammeme the analyzer does not know
inflect(parsed, case) ==
  InflectFrom(SelectSeq(AllForms, LAMBDA f : f.lex = parsed.lex /\ case \in f.tag), case)

(***************************************************************************)
(* SentenceMorpher.  An operator that models a function is followed by the *)
(* operators that model the rest of its body after each analyzer call.     *)
(***************************************************************************)
\* self.supported_cases
supported_cases == {"nomn", "gent", "datv", "accs", "ablt", "loct", "voct"}

\* inflected_word.endswith(('ovi', 'evi', 'yevi'))
HasLongDativeEnding(w) ==
  EndsWithAny(w, {<<"o", "v", "i">>, <<"e", "v", "i">>, <<"ye", "v", "i">>})

\* IsShortDative without the test of the case
IsShortDativeAnyCase(form) ==
  EndsWith(form.word, <<"u">>) \/ EndsWith(form.word, <<"yu">>)

\* 'datv' in form.tag and (form.word.endswith('u') or form.word.endswith('yu'))
IsShortDative(form) ==
  /\ "datv" \in form.tag
  /\ (EndsWith(form.word, <<"u">>) \/ EndsWith(form.word, <<"yu">>))

\* except (AttributeError, IndexError) of _refine_dative_case
RefineCaught == {"AttributeError", "IndexError"}

\* except (AttributeError, IndexError, TypeError) of morph_word
MorphWordCaught == {"AttributeError", "IndexError", "TypeError"}

\* what _refine_dative_case does with an exception raised in its try block
RefineExcept(exc, inflected_word) ==
  IF exc \in RefineCaught
  THEN [exc |-> "none", val |-> inflected_word, parses |-> 1]
  ELSE [exc |-> exc, val |-> <<>>, parses |-> 1]

\* form.word.capitalize() if original_word and original_word[0].isupper()
\* else form.word
ShortFormFor(original_word, w) ==
  IF original_word # <<>> /\ IsUpperChar(original_word[1]) THEN Capitalize(w) ELSE w

\* the for loop of _refine_dative_case: the first short dative form wins
RefineScan(original_word, inflected_word, short) ==
  IF short # <<>>
  THEN [exc |-> "none", val |-> ShortFormFor(original_word, short[1].word), parses |-> 1]
  ELSE [exc |-> "none", val |-> inflected_word, parses |-> 1]

\* _refine_dative_case from target_lexeme = parsed_original[0].lexeme on
RefineLexeme(original_word, inflected_word, lx) ==
  IF lx.exc # "none"
  THEN RefineExcept(lx.exc, inflected_word)
  ELSE RefineScan(original_word, inflected_word, SelectSeq(lx.forms, IsShortDative))

\* _refine_dative_case after parsed_original = self.morph.parse(original_word)
RefineParsed(original_word, inflected_word, parsed_original) ==
  IF parsed_original.exc # "none"
  THEN RefineExcept(parsed_original.exc, inflected_word)
  ELSE IF parsed_original.list = <<>>
  THEN [exc |-> "none", val |-> inflected_word, parses |-> 1]
  ELSE RefineLexeme(original_word, inflected_word, lexeme(parsed_original.list[1]))

\* _refine_dative_case(original_word, inflected_word): the value returned, or
\* the exception that leaves it, and the number of parse calls made
refine_dative_case(original_word, inflected_word) ==
  IF ~HasLongDativeEnding(inflected_word)
  THEN [exc |-> "none", val |-> inflected_word, parses |-> 0]
  ELSE RefineParsed(original_word, inflected_word, parse(original_word))

\* what morph_word returns: formed says the analyzer produced a form and it
\* was returned; parses, inflects are the analyzer calls made
WordReturn(val, formed, np, ni) ==
  [kind |-> "value", val |-> val, exc |-> "none", formed |-> formed,
   parses |-> np, inflects |-> ni]

\* the return of morph_word's except clause, or the exception passing it
WordFallback(exc, word, np, ni) ==
  IF exc \in MorphWordCaught
  THEN WordReturn(word, FALSE, np, ni)
  ELSE [kind |-> "raise", val |-> <<>>, exc |-> exc, formed |-> FALSE,
        parses |-> np, inflects |-> ni]

\* Recapitalize without the capitalization
RecapitalizeNever(word, inflected_word) == inflected_word

\* inflected_word.capitalize() if is_capitalized else inflected_word
Recapitalize(word, inflected_word) ==
  IF IsUpperChar(word[1]) THEN Capitalize(inflected_word) ELSE inflected_word

\* morph_word after the dative rule
MorphRefined(word, refined) ==
  IF refined.exc # "none"
  THEN WordFallback(refined.exc, word, 1 + refined.parses, 1)
  ELSE WordReturn(Recapitalize(word, refined.val), TRUE, 1 + refined.parses, 1)

\* Rule 1 of morph_word: only the dative goes through _refine_dative_case
DativeRule(word, case, inflected_word) ==
  IF case = "datv"
  THEN refine_dative_case(word, inflected_word)
  ELSE [exc |-> "none", val |-> inflected_word, parses |-> 0]

\* morph_word after inflected = parsed.inflect({case})
MorphInflected(word, case, inflected) ==
  IF inflected.exc # "none" THEN WordFallback(inflected.exc, word, 1, 1)
  ELSE IF inflected.isNone THEN WordReturn(word, FALSE, 1, 1)
  ELSE MorphRefined(word, DativeRule(word, case, inflected.word))

\* morph_word after self.morph.parse(word)
MorphParsed(word, case, p) ==
  IF TopExc(p) # "none" THEN WordFallback(TopExc(p), word, 1, 0)
  ELSE MorphInflected(word, case, inflect(p.list[1], case))

\* morph_word(word, case)
morph_word(word, case) ==
  IF word = <<>> \/ case = ""
  THEN WordReturn(word, FALSE, 0, 0)
  ELSE MorphParsed(word, case, parse(word))

\* case codes outside supported_cases
InvalidCases == {"", "xyz"}

CaseInputs == supported_cases \cup InvalidCases

\* the dictionary's words, a word it does not know, the words parse fails on,
\* a hyphen and the empty word
LowerWords ==
  {AllForms[i].word : i \in 1..Len(AllForms)}
    \cup {kuzmych, typeErrWord, runtimeErrWord, <<"-">>, <<>>}

\* each in lower case, capitalized and in upper case
WordInputs == LowerWords \cup {Capitalize(w) : w \in LowerWords}
                \cup {Upper(w) : w \in LowerWords}

\* morph_word and parse tabulated over WordInputs and CaseInputs: the analyzer
\* is pure, so a call on the same arguments is evaluated once
MorphWordTable == [w \in WordInputs, c \in CaseInputs |-> morph_word(w, c)]

ParseTable == [w \in WordInputs |-> parse(w)]

MorphWordOf(word, case) ==
  IF word \in WordInputs /\ case \in CaseInputs
  THEN MorphWordTable[word, case] ELSE morph_word(word, case)

ParseOf(word) == IF word \in WordInputs THEN ParseTable[word] ELSE parse(word)

\* except (IndexError, AttributeError) of _process_position_part
PositionCaught == {"IndexError", "AttributeError"}

\* [self.morph_word(w, case) for w in words]
MorphEach(words, case) == [i \in 1..Len(words) |-> MorphWordOf(words[i], case)]

\* the exception of the first call of rs that raised, "none" when none did
FirstExc(rs) ==
  IF \E i \in 1..Len(rs) : rs[i].kind = "raise"
  THEN rs[CHOOSE i \in 1..Len(rs) :
            /\ rs[i].kind = "raise"
            /\ \A j \in 1..(i - 1) : rs[j].kind = "value"].exc
  ELSE "none"

\* the values of calls that all returned
Values(rs) == [i \in 1..Len(rs) |-> rs[i].val]

\* 'ADJF' in first_parsed.tag for the outcome p of parsing the first word,
\* False when the parse failed with a caught error
IsAdjective(p) == TopExc(p) = "none" /\ "ADJF" \in p.list[1].tag

\* InflectedPrefix without the test of is_adj
InflectedPrefixAnyFirst(is_adj, words) == IF Len(words) > 1 THEN 2 ELSE 1

\* how many leading words _process_position_part inflects
InflectedPrefix(is_adj, words) == IF is_adj /\ Len(words) > 1 THEN 2 ELSE 1

\* _process_position_part once the leading words went through morph_word
PositionMorphed(words, n, rs) ==
  IF FirstExc(rs) # "none"
  THEN [exc |-> FirstExc(rs), words |-> <<>>]
  ELSE [exc |-> "none", words |-> Values(rs) \o SubSeq(words, n + 1, Len(words))]

\* _process_position_part from the test of is_adj on
PositionPrefix(words, case, n) ==
  PositionMorphed(words, n, MorphEach(SubSeq(words, 1, n), case))

\* _process_position_part after first_parsed = self.morph.parse(words[0])[0]
PositionParsed(words, case, p) ==
  IF TopExc(p) \notin (PositionCaught \cup {"none"})
  THEN [exc |-> TopExc(p), words |-> <<>>]
  ELSE PositionPrefix(words, case, InflectedPrefix(IsAdjective(p), words))

\* _process_position_part(words, case)
process_position_part(words, case) ==
  IF Len(words) = 0
  THEN [exc |-> "none", words |-> <<>>]
  ELSE PositionParsed(words, case, ParseOf(words[1]))

Raise(exc) == [kind |-> "raise", val |-> <<>>, exc |-> exc]

Return(val) == [kind |-> "value", val |-> val, exc |-> "none"]

\* the plain branch of morph_sentence after the list comprehension
SentenceMorphed(morphed_words) ==
  IF FirstExc(morphed_words) # "none"
  THEN [out |-> Raise(FirstExc(morphed_words)), processed |-> <<>>]
  ELSE [out |-> Return(Join(Space, Values(morphed_words))), processed |-> <<>>]

\* parts = [part.strip().split() for part in sentence.split(' - ')]
PositionParts(sentence) ==
  LET pieces == SplitOn(sentence, Delimiter)
  IN [i \in 1..Len(pieces) |-> Split(Strip(pieces[i]))]

\* the first part, in order, that an exception left
FirstBad(rs) ==
  CHOOSE i \in 1..Len(rs) :
    rs[i].exc # "none" /\ \A j \in 1..(i - 1) : rs[j].exc = "none"

\* the position branch of morph_sentence after every part was processed.
\* processed: the word list _process_position_part returned for each part
PositionProcessed(rs) ==
  IF \E i \in 1..Len(rs) : rs[i].exc # "none"
  THEN [out |-> Raise(rs[FirstBad(rs)].exc), processed |-> <<>>]
  ELSE [out |-> Return(Join(Delimiter, [i \in 1..Len(rs) |-> Join(Space, rs[i].words)])),
        processed |-> [i \in 1..Len(rs) |-> rs[i].words]]

\* [self._process_position_part(p_words, case) for p_words in parts]
ProcessEach(parts, case) ==
  [i \in 1..Len(parts) |-> process_position_part(parts[i], case)]

\* morph_sentence(sentence, case, is_position)
morph_sentence(sentence, case, is_position) ==
  IF case \notin supported_cases
  THEN [out |-> Raise("ValueError"), processed |-> <<>>]
  ELSE IF Strip(sentence) = <<>>
  THEN [out |-> Return(<<>>), processed |-> <<>>]
  ELSE IF ~is_position
  THEN SentenceMorphed(MorphEach(Split(Strip(sentence)), case))
  ELSE PositionProcessed(ProcessEach(PositionParts(sentence), case))

(***************************************************************************)
(* NameMorpher.  self._case_cache is a set of entries [key, val]; a key is *)
(* the triple the f-string of _inflect_name_part is built from.            *)
(***************************************************************************)
\* cache_key = f"{name_part.lower()}_{case}_{is_feminine}"
CacheKey(name_part, case, is_feminine) == <<Lower(name_part), case, is_feminine>>

\* cache_key in self._case_cache
InCache(c, key) == \E e \in c : e.key = key

\* self._case_cache[cache_key]
CacheGet(c, key) == (CHOOSE e \in c : e.key = key).val

\* self._case_cache[cache_key] = result
CachePut(c, key, val) == {e \in c : e.key # key} \cup {[key |-> key, val |-> val]}

\* except (AttributeError, IndexError) of _inflect_name_part and _determine_gender
NameCaught == {"AttributeError", "IndexError"}

\* 'Sgtm' in parsed.tag and not name_part.endswith(('a', 'ya')) for the
\* outcome p of parsing name_part, False when the parse failed with a caught
\* error
IsFixedForm(p, name_part) ==
  /\ TopExc(p) = "none"
  /\ "Sgtm" \in p.list[1].tag
  /\ ~EndsWithAny(name_part, {<<"a">>, <<"ya">>})

\* name_part.capitalize() if name_part and name_part[0].isupper() else name_part
KeepCapital(name_part) ==
  IF name_part # <<>> /\ IsUpperChar(name_part[1])
  THEN Capitalize(name_part) ELSE name_part

\* what _inflect_name_part reports: the value returned or the exception
\* leaving it, the cache afterwards, the analyzer calls made, and the way the
\* value was obtained
PartResult(exc, val, c, np, ni, via) ==
  [exc |-> exc, val |-> val, cache |-> c, parses |-> np, inflects |-> ni, via |-> via]

\* PartMorphed without the store into the cache
PartMorphedNoStore(c, key, fp, r) ==
  IF r.kind = "raise"
  THEN PartResult(r.exc, <<>>, c, fp + r.parses, r.inflects, "raise")
  ELSE PartResult("none", r.val, c, fp + r.parses, r.inflects, "morph_word")

\* _inflect_name_part from result = self.morpher.morph_word(name_part, case)
\* on; fp counts the parse of the feminine rule
PartMorphed(c, key, fp, r) ==
  IF r.kind = "raise"
  THEN PartResult(r.exc, <<>>, c, fp + r.parses, r.inflects, "raise")
  ELSE PartResult("none", r.val, CachePut(c, key, r.val), fp + r.parses, r.inflects,
                  "morph_word")

\* the special rule of _inflect_name_part for a feminine name, after
\* parsed = self.morph.parse(name_part)[0]
PartFeminine(c, name_part, case, key, p) ==
  IF TopExc(p) \notin (NameCaught \cup {"none"})
  THEN PartResult(TopExc(p), <<>>, c, 1, 0, "raise")
  ELSE IF IsFixedForm(p, name_part) /\ case # "nomn"
  THEN PartResult("none", KeepCapital(name_part),
                  CachePut(c, key, KeepCapital(name_part)), 1, 0, "fixed")
  ELSE PartMorphed(c, key, 1, MorphWordOf(name_part, case))

\* _inflect_name_part after the cache lookup missed
PartMiss(c, name_part, case, is_feminine, key) ==
  IF is_feminine
  THEN PartFeminine(c, name_part, case, key, ParseOf(name_part))
  ELSE PartMorphed(c, key, 0, MorphWordOf(name_part, case))

\* _inflect_name_part(name_part, case, is_feminine) on cache c
inflect_name_part(c, name_part, case, is_feminine) ==
  IF name_part = <<>>
  THEN PartResult("none", <<>>, c, 0, 0, "empty")
  ELSE IF InCache(c, CacheKey(name_part, case, is_feminine))
  THEN PartResult("none", CacheGet(c, CacheKey(name_part, case, is_feminine)), c, 0, 0,
                  "cache")
  ELSE PartMiss(c, name_part, case, is_feminine, CacheKey(name_part, case, is_feminine))

\* patronymic_lower.endswith(('ivna', 'yivna'))
FemininePatronymic(patronymic) ==
  EndsWithAny(Lower(patronymic), {<<"i", "v", "n", "a">>, <<"yi", "v", "n", "a">>})

\* patronymic_lower.endswith(('ych', 'ovych'))
MasculinePatronymic(patronymic) ==
  EndsWithAny(Lower(patronymic), {<<"y", "ch">>, <<"o", "v", "y", "ch">>})

\* _determine_gender after self.morph.parse(first_name)
GenderParsed(p) ==
  IF TopExc(p) = "none"
  THEN [exc |-> "none", fem |-> "femn" \in p.list[1].tag, parses |-> 1]
  ELSE IF TopExc(p) \in NameCaught
  THEN [exc |-> "none", fem |-> FALSE, parses |-> 1]
  ELSE [exc |-> TopExc(p), fem |-> FALSE, parses |-> 1]

\* _determine_gender(first_name, patronymic)
determine_gender(first_name, patronymic) ==
  IF FemininePatronymic(patronymic)
  THEN [exc |-> "none", fem |-> TRUE, parses |-> 0]
  ELSE IF MasculinePatronymic(patronymic)
  THEN [exc |-> "none", fem |-> FALSE, parses |-> 0]
  ELSE IF first_name = <<>>
  THEN [exc |-> "none", fem |-> FALSE, parses |-> 0]
  ELSE GenderParsed(ParseOf(first_name))

\* parts[k] if len(parts) > k else '' (k counted from 1 here)
PartAt(parts, k) == IF Len(parts) >= k THEN parts[k] ELSE <<>>

\* JoinNonEmpty without the filter
JoinEvery(final_parts) == Join(Space, final_parts)

\* ' '.join(filter(None, final_parts))
JoinNonEmpty(final_parts) == Join(Space, SelectSeq(final_parts, LAMBDA x : x # <<>>))

\* morphed_surname.upper() if uppercase_surname else morphed_surname
SurnameCasing(morphed_surname, uppercase_surname) ==
  IF uppercase_surname THEN Upper(morphed_surname) ELSE morphed_surname

\* what morph_name reports when an exception leaves it or nothing is processed
NameStopped(out, c, np, ni, fem) ==
  [out |-> out, cache |-> c, parses |-> np, inflects |-> ni, fem |-> fem,
   final_parts |-> <<>>, morphed |-> <<>>, via |-> <<>>]

\* morph_name from final_parts on.  morphed: what _inflect_name_part returned
\* for surname, first name and patronymic; final_parts: the list that is joined
NameAssembled(uppercase_surname, g, s1, s2, s3) ==
  [out |-> Return(JoinNonEmpty(<<SurnameCasing(s1.val, uppercase_surname), s2.val, s3.val>>)),
   cache |-> s3.cache,
   parses |-> g.parses + s1.parses + s2.parses + s3.parses,
   inflects |-> s1.inflects + s2.inflects + s3.inflects,
   fem |-> g.fem,
   final_parts |-> <<SurnameCasing(s1.val, uppercase_surname), s2.val, s3.val>>,
   morphed |-> <<s1.val, s2.val, s3.val>>,
   via |-> <<s1.via, s2.via, s3.via>>]

\* morph_name after morphed_patronymic = self._inflect_name_part(patronymic, ...)
NamePatronymic(uppercase_surname, g, s1, s2, s3) ==
  IF s3.exc # "none"
  THEN NameStopped(Raise(s3.exc), s3.cache,
                   g.parses + s1.parses + s2.parses + s3.parses,
                   s1.inflects + s2.inflects + s3.inflects, g.fem)
  ELSE NameAssembled(uppercase_surname, g, s1, s2, s3)

\* morph_name after morphed_first_name = self._inflect_name_part(first_name, ...)
NameFirst(patronymic, case, uppercase_surname, g, s1, s2) ==
  IF s2.exc # "none"
  THEN NameStopped(Raise(s2.exc), s2.cache, g.parses + s1.parses + s2.parses,
                   s1.inflects + s2.inflects, g.fem)
  ELSE NamePatronymic(uppercase_surname, g, s1, s2,
                      inflect_name_part(s2.cache, patronymic, case, g.fem))

\* morph_name after morphed_surname = self._inflect_name_part(surname, ...)
NameSurname(first_name, patronymic, case, uppercase_surname, g, s1) ==
  IF s1.exc # "none"
  THEN NameStopped(Raise(s1.exc), s1.cache, g.parses + s1.parses, s1.inflects, g.fem)
  ELSE NameFirst(patronymic, case, uppercase_surname, g, s1,
                 inflect_name_part(s1.cache, first_name, case, g.fem))

\* morph_name after is_feminine = self._determine_gender(first_name, patronymic)
NameGender(c, surname, first_name, patronymic, case, uppercase_surname, g) ==
  IF g.exc # "none"
  THEN NameStopped(Raise(g.exc), c, g.parses, 0, FALSE)
  ELSE NameSurname(first_name, patronymic, case, uppercase_surname, g,
                   inflect_name_part(c, surname, case, g.fem))

\* morph_name after parts = fullname.strip().split()
NameParts(c, parts, case, uppercase_surname) ==
  NameGender(c, PartAt(parts, 1), PartAt(parts, 2), PartAt(parts, 3), case,
             uppercase_surname, determine_gender(PartAt(parts, 2), PartAt(parts, 3)))

\* morph_name(fullname, case, uppercase_surname) on cache c
morph_name(c, fullname, case, uppercase_surname) ==
  IF case \notin supported_cases THEN NameStopped(Raise("ValueError"), c, 0, 0, FALSE)
  ELSE IF Strip(fullname) = <<>> THEN NameStopped(Return(<<>>), c, 0, 0, FALSE)
  ELSE NameParts(c, Split(Strip(fullname)), case, uppercase_surname)

(***************************************************************************)
(* Inputs of the calls.                                                    *)
(***************************************************************************)
\* longest text, in words and ' - ' marks, passed to morph_sentence
MaxItems == 4

\* most morph_name calls made on one NameMorpher, the repetition of the last
\* one not counted
MaxCalls == 2

Dash == <<"-">>

\* an adjective, two nouns (one without a lexeme), the words parse fails on,
\* and the hyphen of ' - '
TextVocab ==
  {Capitalize(novyj \o <<"y", "j">>), dekan, brat, typeErrWord, runtimeErrWord, Dash}

\* the cases morph_sentence is called with: two supported ones, two invalid ones
TextCaseInputs == {"gent", "datv"} \cup InvalidCases

\* every list of at most n items
ItemLists(n) == UNION {[1..k -> TextVocab] : k \in 0..n}

\* the items joined by one space, or by two with the text padded, or by a tab
Layout(items, style) ==
  IF style = "single" THEN Join(Space, items)
  ELSE IF style = "padded" THEN Space \o Join(<<" ", " ">>, items) \o Space
  ELSE Join(<<"TAB">>, items)

TextInputs ==
  {Layout(l, style) : l \in ItemLists(MaxItems), style \in {"single", "padded", "tab"}}

NameWord(w) == Capitalize(w)

\* the cases morph_name is called with: four supported ones and an invalid one
NameCaseInputs == {"nomn", "gent", "datv", "ablt", "xyz"}

\* full names: three parts; two parts in lower case; a feminine name of three
\* parts; a feminine name with a surname in -a; four parts with
\* an unknown patronymic, padded; a first name parse fails on; a surname
\* alone, in upper case; a blank name
NameInputs ==
  { Join(Space, <<NameWord(shevchenk \o <<"o">>), NameWord(taras), NameWord(petrovych)>>),
    Join(Space, <<shevchenk \o <<"o">>, taras>>),
    Join(Space, <<NameWord(koval \o <<"soft">>), NameWord(lyubov),
                  NameWord(petrivn \o <<"a">>)>>),
    Join(Space, <<NameWord(sosyur \o <<"a">>), NameWord(olh \o <<"a">>)>>),
    Layout(<<NameWord(dekan), NameWord(taras), NameWord(kuzmych), NameWord(metro)>>,
           "padded"),
    Join(Space, <<NameWord(koval \o <<"soft">>), runtimeErrWord>>),
    Upper(koval \o <<"soft">>),
    <<" ", "TAB">> }

(***************************************************************************)
(* The state: the NameMorpher's cache, and the last call made: which       *)
(* operation, its arguments, what it returned or raised, and what it did   *)
(* on the way (obs).  prev holds the outcome of the call before a repeated *)
(* morph_name call.                                                        *)
(***************************************************************************)
NoPrev == [repeated |-> FALSE, out |-> Return(<<>>)]

Init ==
  /\ cache = {}
  /\ op = "init"
  /\ args = [text |-> <<>>, case |-> "", flag |-> FALSE]
  /\ outcome = Return(<<>>)
  /\ obs = [parses |-> 0, inflects |-> 0]
  /\ prev = NoPrev
  /\ ncalls = 0

\* a call of SentenceMorpher.morph_word
MorphWord ==
  /\ op = "init"
  /\ \E word \in WordInputs, case \in CaseInputs :
    LET r == MorphWordOf(word, case)
    IN /\ op' = "morph_word"
       /\ args' = [text |-> word, case |-> case, flag |-> FALSE]
       /\ outcome' = [kind |-> r.kind, val |-> r.val, exc |-> r.exc]
       /\ obs' = [parses |-> r.parses, inflects |-> r.inflects, formed |-> r.formed]
       /\ UNCHANGED <<cache, prev, ncalls>>

\* a call of SentenceMorpher.morph_sentence
MorphSentence ==
  /\ op = "init"
  /\ \E sentence \in TextInputs, case \in TextCaseInputs, is_position \in BOOLEAN :
    LET r == morph_sentence(sentence, case, is_position)
    IN /\ op' = "morph_sentence"
       /\ args' = [text |-> sentence, case |-> case, flag |-> is_position]
       /\ outcome' = r.out
       /\ obs' = [processed |-> r.processed]
       /\ UNCHANGED <<cache, prev, ncalls>>

NameObs(r) ==
  [parses |-> r.parses, inflects |-> r.inflects, fem |-> r.fem,
   final_parts |-> r.final_parts, morphed |-> r.morphed, via |-> r.via]

\* a call of NameMorpher.morph_name
MorphName ==
  /\ ncalls < MaxCalls
  /\ ~prev.repeated
  /\ \E fullname \in NameInputs, case \in NameCaseInputs, uppercase_surname \in BOOLEAN :
       LET r == morph_name(cache, fullname, case, uppercase_surname)
       IN /\ op' = "morph_name"
          /\ args' = [text |-> fullname, case |-> case, flag |-> uppercase_surname]
          /\ outcome' = r.out
          /\ obs' = NameObs(r)
          /\ cache' = r.cache
          /\ prev' = NoPrev
          /\ ncalls' = ncalls + 1

\* the same morph_name call once more, right after the first; it ends the
\* session
MorphNameAgain ==
  /\ op = "morph_name"
  /\ ~prev.repeated
  /\ LET r == morph_name(cache, args.text, args.case, args.flag)
     IN /\ outcome' = r.out
        /\ obs' = NameObs(r)
        /\ cache' = r.cache
        /\ prev' = [repeated |-> TRUE, out |-> outcome]
        /\ UNCHANGED <<op, args, ncalls>>

NextWord == MorphWord

NextText == MorphSentence

NextName == MorphName \/ MorphNameAgain

SpecWord == Init /\ [][NextWord]_vars

SpecText == Init /\ [][NextText]_vars

SpecName == Init /\ [][NextName]_vars

(***************************************************************************)
(* Properties of morph_word, checked under SpecWord.                       *)
(***************************************************************************)
\* C1: a call of an entry point with a case code outside supported_cases,
\* the empty string included, raises ValueError (invalid argument) for every
\* input text instead of returning a value.
C1_InvalidCaseRejected ==
  (op # "init" /\ args.case \notin supported_cases) =>
    (outcome.kind = "raise" /\ outcome.exc = "ValueError")

\* C5: when morph_word returns an analyzer form for the dative, with shorts
\* the forms of the top parse's lexeme tagged datv that end in -u or -yu, in
\* lexeme order: the result ends in -ovi, -evi or -yevi only if shorts is
\* empty; if the analyzer's dative form has a long ending and shorts is not
\* empty the result is the first of shorts with the word's leading
\* capitalization; if the analyzer's dative form has no long ending, or has
\* one and shorts is empty, the result is that form with the word's leading
\* capitalization.
C5_DativeRefinement ==
  (op = "morph_word" /\ args.case = "datv" /\ obs.formed) =>
    LET top == parse(args.text).list[1]
        naive == inflect(top, "datv").word
        shorts == SelectSeq(lexeme(top).forms,
                            LAMBDA f : /\ "datv" \in f.tag
                                       /\ f.word[Len(f.word)] \in {"u", "yu"})
        Long(w) == /\ Len(w) >= 3
                   /\ SubSeq(w, Len(w) - 1, Len(w)) = <<"v", "i">>
                   /\ w[Len(w) - 2] \in {"o", "e", "ye"}
        Cased(w) == IF IsUpperChar(args.text[1]) THEN Capitalize(w) ELSE w
    IN /\ Long(Lower(outcome.val)) => shorts = <<>>
       /\ (Long(naive) /\ shorts # <<>>) => outcome.val = Cased(shorts[1].word)
       /\ (~Long(naive) \/ shorts = <<>>) => outcome.val = Cased(naive)

\* a capitalized word whose lexeme holds two short dative forms after the long
\* one came back as the first short form, capitalized
C5_Witness ==
  /\ op = "morph_word"
  /\ args.text = Capitalize(ihor)
  /\ args.case = "datv"
  /\ obs.formed
  /\ outcome.val = Capitalize(ihor \o <<"yu">>)

\* C7: when morph_word returns an analyzer form for a non-empty word and a
\* supported case, the result starts with an uppercase character if the word
\* does and with a lowercase character if the word does.
C7_CapitalizationPreserved ==
  (op = "morph_word" /\ args.text # <<>> /\ args.case \in supported_cases /\ obs.formed) =>
    /\ IsUpperChar(args.text[1]) => IsUpperChar(outcome.val[1])
    /\ IsLowerChar(args.text[1]) => IsLowerChar(outcome.val[1])

\* a word in upper case came back inflected and capitalized
C7_Witness ==
  /\ op = "morph_word"
  /\ args.text = Upper(dekan)
  /\ args.case = "gent"
  /\ obs.formed
  /\ outcome.val = Capitalize(dekan \o <<"a">>)

(***************************************************************************)
(* Properties of morph_sentence, checked under SpecText.                   *)
(***************************************************************************)
\* C2: for every supported case and every text, in both modes, morph_sentence
\* returns a value and never raises, whatever failure the analyzer has on a
\* word.
C2_AnalyzerFailuresAbsorbed ==
  (op = "morph_sentence" /\ args.case \in supported_cases) => outcome.kind = "value"

\* C4: when morph_sentence returns a value in position mode for a non-blank
\* text, with the text cut at every ' - ': each segment yields, independently,
\* its first word inflected, its second word inflected only if the top parse
\* of the first is an adjective and a second word exists, and every other
\* word verbatim and in order; the result is these segments, in the original
\* order and number, each joined by single spaces, joined by ' - '.
C4_PositionSegments ==
  (op = "morph_sentence" /\ args.flag /\ outcome.kind = "value"
     /\ Strip(args.text) # <<>>) =>
    LET segments == SplitOn(args.text, Delimiter)
        WordsOf(i) == Split(segments[i])
        Adjective1(w) == LET p == parse(w)
                         IN p.exc = "none" /\ p.list # <<>> /\ "ADJF" \in p.list[1].tag
        Inflected(i) == IF Len(WordsOf(i)) >= 2 /\ Adjective1(WordsOf(i)[1])
                        THEN 2 ELSE 1
        Expected(i) == [k \in 1..Len(WordsOf(i)) |->
                          IF k <= Inflected(i)
                          THEN morph_word(WordsOf(i)[k], args.case).val
                          ELSE WordsOf(i)[k]]
    IN /\ Len(obs.processed) = Len(segments)
       /\ \A i \in 1..Len(segments) : obs.processed[i] = Expected(i)
       /\ outcome.val =
            Join(Delimiter, [i \in 1..Len(segments) |-> Join(Space, obs.processed[i])])

\* two segments; the first starts with an adjective and had both its words
\* inflected, the second had its only word inflected
C4_Witness ==
  /\ op = "morph_sentence"
  /\ args.flag
  /\ args.case = "gent"
  /\ args.text = Join(Space, <<Capitalize(novyj \o <<"y", "j">>), dekan, Dash, dekan>>)
  /\ obs.processed = << <<Capitalize(novyj \o <<"o", "h", "o">>), dekan \o <<"a">>>>,
                        <<dekan \o <<"a">>>> >>

(***************************************************************************)
(* Properties of morph_name, checked under SpecName.                       *)
(***************************************************************************)
\* C3 as stated: when the first of two consecutive morph_name calls with the
\* same arguments returned a value, the second returns the identical value and
\* calls neither parse nor inflect.
C3_SecondCallNoAnalyzer ==
  (prev.repeated /\ prev.out.kind = "value") =>
    (outcome = prev.out /\ obs.parses = 0 /\ obs.inflects = 0)

\* C3: when the first of two consecutive morph_name calls with the same
\* arguments returned a value, the second returns the identical value, calls
\* inflect never, and calls parse exactly once if the name has a first name
\* and its patronymic (absent or not) ends in none of -ivna, -yivna, -ych,
\* -ovych, and never otherwise.
C3_SecondCallOnlyGenderParse ==
  (prev.repeated /\ prev.out.kind = "value") =>
    LET parts == Split(args.text)
        patronymic == IF Len(parts) >= 3 THEN Lower(parts[3]) ELSE <<>>
        Ends(suf) == /\ Len(patronymic) >= Len(suf)
                     /\ \A i \in 1..Len(suf) :
                          patronymic[Len(patronymic) - Len(suf) + i] = suf[i]
        decided == \/ Ends(<<"i", "v", "n", "a">>) \/ Ends(<<"yi", "v", "n", "a">>)
                   \/ Ends(<<"y", "ch">>) \/ Ends(<<"o", "v", "y", "ch">>)
    IN /\ outcome = prev.out
       /\ obs.inflects = 0
       /\ obs.parses = IF Len(parts) >= 2 /\ ~decided THEN 1 ELSE 0

\* a repeated call that parsed the first name for the gender and took both
\* parts from the cache
C3_Witness ==
  /\ prev.repeated
  /\ prev.out.kind = "value"
  /\ outcome.val # <<>>
  /\ obs.parses = 1
  /\ obs.via = <<"cache", "cache", "empty">>

\* C6: when morph_name returns a name with a patronymic whose inflection by
\* morph_word still ends in -ych, the patronymic of the result is that word
\* with -a appended for gent, -em for ablt, -u for datv and voct, and that
\* word itself for any other case.
C6_PatronymicSuffixRepair ==
  (op = "morph_name" /\ outcome.kind = "value" /\ Len(Split(args.text)) >= 3) =>
    LET inflected == morph_word(Split(args.text)[3], args.case).val
        suffix == IF args.case = "gent" THEN <<"a">>
                  ELSE IF args.case = "ablt" THEN <<"e", "m">>
                  ELSE IF args.case \in {"datv", "voct"} THEN <<"u">>
                  ELSE <<>>
    IN EndsWith(Lower(inflected), <<"y", "ch">>) =>
         Lower(Split(outcome.val)[3]) = Lower(inflected) \o suffix

\* C8: when morph_name returns a value for a non-blank name of n tokens: the
\* result is the first min(n, 3) entries of final_parts joined by single
\* spaces, so it has min(n, 3) parts, none empty, and no space at either end;
\* the k-th is what _inflect_name_part gave (and cached) for the k-th token;
\* the surname is that in upper case if uppercase_surname, else as it is.
C8_NameAssembly ==
  (op = "morph_name" /\ outcome.kind = "value" /\ Strip(args.text) # <<>>) =>
    LET tokens == Split(args.text)
        m == IF Len(tokens) < 3 THEN Len(tokens) ELSE 3
    IN /\ Len(obs.morphed) = 3 /\ Len(obs.final_parts) = 3
       /\ \A k \in 1..3 : (obs.morphed[k] # <<>>) <=> (k <= m)
       /\ \A k \in 1..m :
            [key |-> <<Lower(tokens[k]), args.case, obs.fem>>, val |-> obs.morphed[k]]
              \in cache
       /\ obs.final_parts[1] =
            IF args.flag THEN Upper(obs.morphed[1]) ELSE obs.morphed[1]
       /\ \A k \in 2..3 : obs.final_parts[k] = obs.morphed[k]
       /\ outcome.val = Join(Space, [k \in 1..m |-> obs.final_parts[k]])
       /\ Len(Split(outcome.val)) = m
       /\ outcome.val[1] \notin Whitespace
       /\ outcome.val[Len(outcome.val)] \notin Whitespace

\* a padded name of four tokens came back as three parts, the surname in
\* upper case
C8_Witness ==
  /\ op = "morph_name"
  /\ outcome.kind = "value"
  /\ Len(Split(args.text)) = 4
  /\ args.flag
  /\ Len(Split(outcome.val)) = 3
  /\ obs.final_parts[1] = Upper(dekan \o <<"a">>)

\* C9: in the first morph_name call on a NameMorpher that returns a value:
\* if the gender is feminine, the case is not nomn and the surname is of fixed
\* form (its top parse carries Sgtm and it ends in neither -a nor -ya), the
\* surname is returned uninflected with an initial capital; otherwise the
\* surname is what morph_word returns; the first name and the patronymic are
\* always what morph_word returns.
C9_FixedFormSurnameOnly ==
  (op = "morph_name" /\ ncalls = 1 /\ ~prev.repeated /\ outcome.kind = "value"
     /\ Strip(args.text) # <<>>) =>
    LET tokens == Split(args.text)
        m == IF Len(tokens) < 3 THEN Len(tokens) ELSE 3
        top == parse(tokens[1])
        fixed == /\ obs.fem
                 /\ args.case # "nomn"
                 /\ top.exc = "none" /\ top.list # <<>> /\ "Sgtm" \in top.list[1].tag
                 /\ tokens[1][Len(tokens[1])] \notin {"a", "ya"}
    IN /\ obs.morphed[1] = IF fixed THEN Capitalize(tokens[1])
                           ELSE morph_word(tokens[1], args.case).val
       /\ \A k \in 2..m : obs.morphed[k] = morph_word(tokens[k], args.case).val

\* C10: whatever morph_name calls were made before on the NameMorpher, a call
\* returns (or raises) what the same call does on a NameMorpher with an empty
\* cache.
C10_CacheTransparent ==
  op = "morph_name" =>
    outcome = morph_name({}, args.text, args.case, args.flag).out

====
